---- MODULE Spec2Model ----
(***************************************************************************)
(* The Session Context (AuthProvider) of the rockclimbr client and the     *)
(* part of the API client it calls.                                        *)
(*                                                                         *)
(* Every async function is cut at its awaits: one action calls the         *)
(* function and runs it up to its first await, and one action per await    *)
(* settles the awaited promise (the storage effect or the server's answer) *)
(* and runs the continuation up to the next await.  The settled value is   *)
(* an input: the server answers with any user and any token or with an     *)
(* error, and an AsyncStorage promise resolves or rejects.  A storage call *)
(* takes effect at the step that settles it, and a rejected one has no     *)
(* effect.  The `state` an operation reads from its closure is the state   *)
(* rendered when it is called.                                             *)
(***************************************************************************)
EXTENDS Integers, FiniteSets, Sequences, TLC

\* ---------------------------------------------------------------- bounds
MaxToken == 2       \* access tokens the server can issue: 1..MaxToken
MaxUser == 2        \* user documents the server can answer with: 1..MaxUser
MaxInFlight == 2    \* operations of the context running at the same time
MaxQuery == 3       \* longest gym-search query typed: lengths 0..MaxQuery
MaxToggles == 2     \* presses of the follow button on an open screen
MaxText == 2        \* texts of a profile field: 1..MaxText, 1 the empty string
MaxGym == 1         \* gyms that can be tagged on the profile: 1..MaxGym
MaxSent == 2         \* search requests issued while a search box is open
MaxDuration == 120   \* longest workout duration set on the form, in minutes
MaxImages == 2       \* images picked on the add-workout form
MaxFeeling == 2      \* session-feeling ratings: 1..MaxFeeling
MaxGrade == 2        \* grades of the grade selector: 1..MaxGrade

\* `null` of the source (token: null, user: null, an omitted field)
Null == 0

Tokens == 1..MaxToken
Names == 1..MaxUser

\* interface User: the editable profile fields stand as `username`, the
\* server-computed counters as `stats`.  The server holds MaxUser versions of
\* the document, version n with username n and stats n; the context never
\* reads a field, it stores and replaces whole documents.  NoUser is
\* `user: null`.
Users == {[username |-> n, stats |-> n] : n \in Names}
NoUser == [username |-> Null, stats |-> Null]

\* Partial<User> passed to updateUser: the username, or the field omitted.
Partials == Names \cup {Null}

\* What a rejected promise carries.
ApiErrs == {"e401", "enet"}

Ops == {"loadUser", "signIn", "signUp", "signOut", "updateUser", "refreshUserStats"}

\* interface AuthState
AuthState(u, t, l) == [user |-> u, token |-> t, isLoading |-> l]

\* ------------------------------------------------------- the API client
\* The operations of `api` (services/api.ts).
ApiOps ==
    {"register", "login", "getCurrentUser", "updateProfile", "getWorkouts",
     "addWorkout", "getWorkout", "getPosts", "addPost", "getFeed",
     "getUserProfile", "followUser", "unfollowUser", "getFollowers",
     "getFollowing", "searchUsers", "searchGyms", "addGym", "updatePassword",
     "deleteWorkout"}

\* Those that take a token and send it as a Bearer header.
AuthenticatedOps == ApiOps \ {"register", "login"}

\* Platform.OS: 'web', or a native platform.
Platforms == {"web", "native"}

\* A response as the client reads it: response.ok, and what response.json()
\* finds: "json" a JSON body of the expected shape, "jsonNoUser" a JSON body
\* without a `user` field, "text" a body that is not JSON or is missing.
Bodies == {"json", "jsonNoUser", "text"}
Responses == [ok : BOOLEAN, body : Bodies]
NoResponse == [ok |-> FALSE, body |-> "none"]

\* What an invocation surfaces to its caller.  ApiError carries `response`:
\* "decoded" the server's JSON body, "synthesized" the object deleteWorkout
\* builds from the status.
Surfaces ==
    {"returned", "ApiError", "StatusError", "ParseError", "InvalidFormat",
     "NetworkError", "NotAuthenticated"}

\* How an operation reads the response: through fetchWithErrorHandling
\* ("wrapped"), as deleteWorkout does ("delete"), or with fetch followed by
\* response.json() and the test of response.ok ("plain").
StyleOf(op, platform) ==
    IF op = "getFeed" \/ (op = "getCurrentUser" /\ platform = "native")
    THEN "wrapped"
    ELSE IF op = "deleteWorkout" THEN "delete" ELSE "plain"

Surface(out, carried) == [out |-> out, carried |-> carried]

\* fetchWithErrorHandling: on !response.ok the ApiError thrown inside the
\* try is caught by the catch of the same try, which throws the status
\* error, as it does when response.json() rejects; on a 2xx, a body that
\* does not parse gives 'Invalid response format from server'.
WrappedSurface(r) ==
    IF ~r.ok THEN Surface("StatusError", "none")
    ELSE IF r.body = "text" THEN Surface("InvalidFormat", "none")
    ELSE Surface("returned", "none")

\* fetch, then `await response.json()`, then `if (!response.ok) throw new
\* ApiError(data)`: the body is parsed before the status is looked at.
PlainSurface(r) ==
    IF r.body = "text" THEN Surface("ParseError", "none")
    ELSE IF ~r.ok THEN Surface("ApiError", "decoded")
    ELSE Surface("returned", "none")

\* deleteWorkout: the body is read on !response.ok only, and a body that
\* does not parse is replaced by { error: 'Failed with status: ...' }.
DeleteSurface(r) ==
    IF ~r.ok
    THEN Surface("ApiError", IF r.body = "text" THEN "synthesized" ELSE "decoded")
    ELSE Surface("returned", "none")

Surfaced(style, r) ==
    IF style = "wrapped" THEN WrappedSurface(r)
    ELSE IF style = "delete" THEN DeleteSurface(r)
    ELSE PlainSurface(r)

\* A client in which searchGyms tests its token as well.
ChecksTokenInSearchToo(op) == op \in {"deleteWorkout", "searchGyms"}

\* deleteWorkout alone tests its token: if (!token) throw new Error('Not
\* authenticated').
ChecksToken(op) == op = "deleteWorkout"

\* A client in which every operation fetches again on an answer without
\* `user`.
NeedsRefetchInEveryOp(op, r) == r.ok /\ r.body = "jsonNoUser"

\* updateProfile fetches the user again when the 2xx answer of its PUT has
\* no `user`.
NeedsRefetch(op, r) == op = "updateProfile" /\ r.ok /\ r.body = "jsonNoUser"

\* No invocation; an invocation holds its operation, the platform, whether
\* the token argument is non-empty, the await it is at, the number of HTTP
\* requests dispatched, the answer to its first and to its latest request,
\* and what it surfaced.
ApiIdle ==
    [op |-> "none", platform |-> "web", hasToken |-> FALSE, at |-> "idle",
     requests |-> 0, first |-> NoResponse, resp |-> NoResponse,
     out |-> "none", carried |-> "none"]

\* ------------------------------------------------------------ gym search
\* The screens with a gym search box.
GymSites == {"editProfile", "createPost", "addWorkout"}

\* A screen that asks for two characters wherever gyms are searched.
MinLengthTwoEverywhere(site) == 2

\* The shortest query handleSearchGyms sends: `query.length < 2` returns
\* early on the edit profile screen, `query.length < 1` on create post and
\* add workout.
MinLength(site) == IF site = "editProfile" THEN 2 ELSE 1

QueryLengths == 0..MaxQuery

\* gymInput is the length of the text in the box; site, len and hasToken
\* describe the last run of handleSearchGyms and requests counts its calls
\* of api.searchGyms.  searchResults of the screen: the list left by an
\* earlier search ("earlier"), [] ("empty"), or the list the server
\* answered, filtered ("answered").
GymIdle ==
    [gymInput |-> 0, site |-> "none", len |-> 0, hasToken |-> FALSE,
     at |-> "idle", requests |-> 0, results |-> "earlier"]

\* ---------------------------------------------------------- follow toggle
\* The screens with a follow button: search results, the following list, and
\* another user's profile.
FollowScreens == {"search", "following", "profile"}

\* The backend's follow relation after it has accepted POST /users/follow/:id
\* or POST /users/unfollow/:id, which is also the is_following that GET
\* /users/:id then reports.
ServerFollows(op) == op = "followUser"

\* The request a press sends: unfollowUser if the item's is_following is set,
\* followUser if not.
ToggleOp(flag) == IF flag THEN "unfollowUser" ELSE "followUser"

\* No screen open.  An open screen holds: whether the context has a token,
\* the is_following the user was listed with (start) and the local one
\* (flag), the backend's relation (server), the await the handler is at and
\* the request it sent (op), the requests sent since the screen opened
\* (calls), the presses handled (toggles), whether a request of theirs
\* failed, how the last handler ended, and whether a press came while a
\* toggle was running (ignored).
FolIdle ==
    [screen |-> "none", hasToken |-> FALSE, start |-> FALSE, flag |-> FALSE,
     server |-> FALSE, at |-> "idle", op |-> "none", calls |-> <<>>,
     toggles |-> 0, failed |-> FALSE, last |-> "none", ignored |-> FALSE]

\* handleFollowToggle's promise resolves (every path runs through try, catch
\* and finally).
FolReturned(f) ==
    [f EXCEPT !.at = "idle", !.op = "none", !.toggles = @ + 1,
              !.last = "returned"]

\* ---------------------------------------------------- profile edit screen
\* The strings a text field can hold; EmptyText is ''.  A cached user may
\* lack bio and location (bio?: string, location?: string): Null.
EmptyText == 1
Texts == 1..MaxText
OptionalTexts == Texts \cup {Null}
GymIds == 1..MaxGym

\* `value || ''`
OrEmpty(v) == IF v = Null \/ v = EmptyText THEN EmptyText ELSE v

\* The cached users the screen can open on.
CachedUsers ==
    [username : Texts, bio : OptionalTexts, location : OptionalTexts,
     climbing_gyms : SUBSET GymIds]

\* What the initialisation effect puts in the screen's state.
Initialised(u) ==
    [username |-> OrEmpty(u.username), bio |-> OrEmpty(u.bio),
     location |-> OrEmpty(u.location), gyms |-> u.climbing_gyms]

\* profileUpdateData as handleSaveChanges builds it: the text fields are
\* compared with the cached user's, the gyms with initialGymIds.
ProfileUpdateData(form, u, initialGymIds) ==
    {f \in {"username"} : form.username # u.username}
        \cup {f \in {"bio"} : form.bio # u.bio}
        \cup {f \in {"location"} : form.location # u.location}
        \cup {f \in {"climbing_gym_ids"} : form.gyms # initialGymIds}

\* The screen is not open.  An open screen holds the cached user, the values
\* it was initialised with (init) and the ones on screen (form), the await
\* handleSaveChanges is at, whether the avatar was uploaded, and of the last
\* save: whether it has run on the values on screen (saved), the payload it
\* built, whether it called updateUser and whether that resolved
\* (profileUpdated), and the last alert it raised.
EditClosed ==
    [at |-> "closed",
     user |-> [username |-> EmptyText, bio |-> Null, location |-> Null,
               climbing_gyms |-> {}],
     init |-> [username |-> EmptyText, bio |-> EmptyText,
               location |-> EmptyText, gyms |-> {}],
     form |-> [username |-> EmptyText, bio |-> EmptyText,
               location |-> EmptyText, gyms |-> {}],
     avatarUpdated |-> FALSE, saved |-> FALSE, payload |-> {},
     called |-> FALSE, profileUpdated |-> FALSE, alert |-> "none"]

\* An edit on the screen: the last save no longer describes what is shown.
Edited(e, form) ==
    [e EXCEPT !.form = form, !.saved = FALSE, !.payload = {},
              !.called = FALSE, !.profileUpdated = FALSE, !.alert = "none",
              !.avatarUpdated = FALSE]

\* ------------------------------------------------------ useProtectedRoute
\* segments[0] of the current route: the auth group, the tabs group, or one
\* of the other route groups of the app.
Segments == {"auth", "(tabs)", "profile", "progress", "search", "workouts"}

\* A hook that redirects without waiting for the session to load.
RedirectWhileLoading(navReady, isLoading, hasUser, requireAuth, segment) ==
    IF ~navReady THEN "none"
    ELSE IF ~hasUser /\ requireAuth /\ segment # "auth" THEN "/auth/signup"
    ELSE IF hasUser /\ segment = "auth" THEN "/(tabs)"
    ELSE "none"

\* The effect of useProtectedRoute: nothing without a navigation key or
\* while loading; router.replace('/auth/signup') without a user when
\* authentication is required outside the auth group; else
\* router.replace('/(tabs)') with a user inside the auth group.
Redirect(navReady, isLoading, hasUser, requireAuth, segment) ==
    IF ~navReady \/ isLoading THEN "none"
    ELSE IF ~hasUser /\ requireAuth /\ segment # "auth" THEN "/auth/signup"
    ELSE IF hasUser /\ segment = "auth" THEN "/(tabs)"
    ELSE "none"

\* The hook is not mounted.  A mounted hook holds what its effect depends
\* on (navigation key present, isLoading, user non-null, requireAuth), the
\* segment its last run saw (seen), the redirect that run issued, and the
\* segment the router is on after it.
RouteUnmounted ==
    [mounted |-> FALSE, navReady |-> FALSE, isLoading |-> TRUE,
     hasUser |-> FALSE, requireAuth |-> FALSE, seen |-> "(tabs)",
     redirect |-> "none", segment |-> "(tabs)"]

\* The effect runs on r and router.replace moves the route.
EffectRun(r) ==
    LET d == Redirect(r.navReady, r.isLoading, r.hasUser, r.requireAuth,
                      r.segment)
    IN [r EXCEPT !.seen = r.segment, !.redirect = d,
                 !.segment = IF d = "/auth/signup" THEN "auth"
                             ELSE IF d = "/(tabs)" THEN "(tabs)" ELSE @]

\* -------------------------------------------------------- debounced search
\* The search boxes with a delay: the gym search of the edit profile screen
\* (_.debounce, 300 ms) and the user search (setTimeout, 500 ms).  A query
\* is known by its length, as typing and deleting produce it.
SearchBoxes == {"gymSearch", "userSearch"}

\* The shortest query sent: query.length < 2 (gym search),
\* searchQuery.trim().length >= 2 (user search).
MinSearchLength(box) == IF box = "gymSearch" THEN MinLength("editProfile") ELSE 2

\* [] as displayed results, and no results set yet.
NoResults == 0 - 1
Unset == 0 - 2

\* A search box that leaves the pending timer running when the input
\* changes.
TimersAfterChangeKept(timers, n) == timers \cup {n}

\* The effect's cleanup cancels the pending call (debouncedSearch.cancel(),
\* clearTimeout) and the effect schedules one for the new input.
TimersAfterChange(timers, n) == {n}

\* A screen that drops the answer to a superseded request.
ResultsAfterAnswerIfLatest(s, i) ==
    IF i = Len(s.sent) THEN s.sent[i] ELSE s.results

\* setSearchResults(results) with the answer to request i, whatever has been
\* asked or answered since.
ResultsAfterAnswer(s, i) == s.sent[i]

\* The box is not open.  An open box holds whether there is a token, its
\* input, the pending timers (each the query it will search), the queries
\* sent in order, the requests in flight and the ones answered with a list
\* (indices into sent, in order of arrival), the query whose results are
\* displayed, and what the last step was.
SrchClosed ==
    [box |-> "none", hasToken |-> FALSE, input |-> 0, timers |-> {},
     sent |-> <<>>, inflight |-> {}, answered |-> <<>>, results |-> Unset,
     last |-> "none"]

\* ------------------------------------------------------------ screen loads
\* The screens that load on mount, focus, retry or pull-to-refresh: the
\* Explore feed (app/(tabs)/index.tsx, and its variant in part_006), another
\* user's profile, the workouts list, the workout detail, the own posts of
\* the profile tab.
LoadScreens ==
    {"explore", "exploreVariant", "userProfile", "workouts", "workoutDetail",
     "ownPosts"}
FeedScreens == {"explore", "exploreVariant"}

\* What the server returns to a load: the feed, a set of posts by author
\* (the current user's own, followed users'); else the resource asked for.
Answers(screen) ==
    IF screen \in FeedScreens THEN SUBSET {"own", "followed"} ELSE {{"item"}}

\* An Explore screen that filters its posts in both variants.
PostsSetFilteredEverywhere(screen, hasUser, answer) ==
    IF screen \in FeedScreens /\ hasUser THEN answer \ {"own"} ELSE answer

\* What the screen keeps of the answer: index.tsx sets the posts as
\* received; the variant first filters out the posts whose user_id is the
\* current user's, when there is a current user.
PostsSet(screen, hasUser, answer) ==
    IF screen = "exploreVariant" /\ hasUser THEN answer \ {"own"} ELSE answer

\* The screen is not mounted.  A mounted screen holds: token and route id
\* present, current user present, the await its load is at and whether that
\* load is a pull-to-refresh, its loading and refreshing flags, whether an
\* error is set, the data it holds, the last answer of the server, and how
\* the last load ended.
LoadUnmounted ==
    [screen |-> "none", hasToken |-> FALSE, hasId |-> FALSE,
     hasUser |-> FALSE, at |-> "idle", isRefreshing |-> FALSE,
     loading |-> TRUE, refreshing |-> FALSE, error |-> FALSE, data |-> {},
     returned |-> {}, last |-> "none"]

\* The finally block of a load: the feed's pull-to-refresh clears
\* refreshing, every other load clears loading.
Finally(l) ==
    IF l.screen \in FeedScreens /\ l.isRefreshing
    THEN [l EXCEPT !.refreshing = FALSE, !.at = "idle"]
    ELSE [l EXCEPT !.loading = FALSE, !.at = "idle"]

\* A load function runs up to its first await, or to its end.
Started(l, refresh) ==
    LET s == [l EXCEPT !.isRefreshing = refresh,
                       !.refreshing = IF refresh THEN TRUE ELSE @]
    IN
    IF l.screen \in FeedScreens
    THEN IF ~l.hasToken
         THEN [s EXCEPT !.error = TRUE, !.loading = FALSE,
                        !.refreshing = FALSE, !.last = "returned"]
         ELSE [s EXCEPT !.loading = IF refresh THEN @ ELSE TRUE,
                        !.error = FALSE, !.at = "fetch"]
    ELSE IF l.screen = "userProfile"
    THEN IF ~l.hasToken \/ ~l.hasId
         THEN [s EXCEPT !.last = "returned"]
         ELSE [s EXCEPT !.loading = TRUE, !.error = FALSE, !.at = "fetch"]
    ELSE IF l.screen = "workouts"
    THEN IF ~l.hasToken
         THEN Finally([s EXCEPT !.error = TRUE, !.last = "returned"])
         ELSE [s EXCEPT !.at = "fetch"]
    ELSE IF l.screen = "workoutDetail"
    THEN IF ~l.hasToken \/ ~l.hasId
         THEN Finally([s EXCEPT !.error = TRUE, !.last = "returned"])
         ELSE [s EXCEPT !.loading = TRUE, !.at = "fetch"]
    ELSE IF ~l.hasToken
         THEN [s EXCEPT !.error = TRUE, !.loading = FALSE,
                        !.at = "checkToken"]
         ELSE [s EXCEPT !.loading = TRUE, !.error = FALSE, !.at = "fetch"]

\* What the screen renders: the spinner, the error view with its Retry
\* button, or the data.
View(l) ==
    IF l.screen \in FeedScreens
    THEN IF l.data # {} THEN "data"
         ELSE IF l.loading THEN "spinner"
         ELSE IF l.error THEN "error" ELSE "empty"
    ELSE IF l.loading THEN "spinner"
    ELSE IF l.error THEN "error"
    ELSE IF l.screen \in {"userProfile", "workoutDetail"} /\ l.data = {}
    THEN "error"
    ELSE "data"

\* ------------------------------------------------------- add-workout form
\* useState<number>(90) and the +/- 15 minutes buttons.
DefaultDuration == 90
DurationStep == 15
Grades == 1..MaxGrade

\* resetForm(): every field of the form back to its initial value.
ResetForm(f) ==
    [f EXCEPT !.date = "today", !.duration = DefaultDuration,
              !.climbs = <<>>, !.images = 0, !.feeling = Null,
              !.achievement = EmptyText, !.gym = Null,
              !.showGradeSelector = FALSE]

\* The form as mounted: the date (today, or one picked), the duration, the
\* climbs (their grades, in order), the number of images, the session
\* feeling, the achievement text, the selected gym, whether the grade
\* selector is open, the last alert, and the handler that ran last (with the
\* grade it was given).
FormInitial ==
    [date |-> "today", duration |-> DefaultDuration, climbs |-> <<>>,
     images |-> 0, feeling |-> Null, achievement |-> EmptyText,
     gym |-> Null, showGradeSelector |-> FALSE, alert |-> "none",
     last |-> "none", grade |-> Null]

\* The fields the claim of addClimb speaks of.
FormFields(f) ==
    [climbs |-> f.climbs, gym |-> f.gym, date |-> f.date,
     duration |-> f.duration, images |-> f.images, feeling |-> f.feeling,
     achievement |-> f.achievement]

VARIABLES
    mem,      \* the React state of AuthProvider: AuthState
    stored,   \* AsyncStorage item 'token' (Null: absent)
    pc,       \* per operation: "idle", or the await it is suspended at
    loc,      \* per operation: its local variables and captured closure
    ev,       \* what the last step did: the operation that settled and how
    pre,      \* (mem, stored) at the call of an operation that runs alone
    api,      \* one invocation of an API client operation
    gym,      \* the gym search of a screen: its last handleSearchGyms run
    fol,      \* a screen with a follow button, and the user it shows
    edit,     \* the profile edit screen
    route,    \* useProtectedRoute: what its effect saw and did
    srch,     \* a debounced search box: timers, requests, results
    load,     \* a screen that loads its data: flags, error, data
    form      \* the add-workout form

\* The variables of the Session Context, and those of the other components
\* (the API client's invocation, the screens), which the context never
\* writes.
auth == <<mem, stored, pc, loc, ev, pre>>
others == <<api, gym, fol, edit, route, srch, load, form>>
exceptApi == <<auth, gym, fol, edit, route, srch, load, form>>
exceptGym == <<auth, api, fol, edit, route, srch, load, form>>
exceptFol == <<auth, api, gym, edit, route, srch, load, form>>
exceptEdit == <<auth, api, gym, fol, route, srch, load, form>>
exceptRoute == <<auth, api, gym, fol, edit, srch, load, form>>
exceptSrch == <<auth, api, gym, fol, edit, route, load, form>>
exceptLoad == <<auth, api, gym, fol, edit, route, srch, form>>
exceptForm == <<auth, api, gym, fol, edit, route, srch, load>>
vars == <<mem, stored, pc, loc, ev, pre, api, gym, fol, edit, route, srch, load, form>>

\* Locals of an operation that is not running.
NoLoc == [tok |-> Null, user |-> NoUser, data |-> Null, err |-> "none",
          snap |-> AuthState(NoUser, Null, FALSE)]

\* The `state` a closure captured, as far as `{ ...state, user: updatedUser }`
\* reads it: the captured user is overwritten by the spread.
Captured(st) == [st EXCEPT !.user = NoUser]

\* The last step settled no operation.  Of a settled operation `ev` keeps
\* what the server answered (tok, user) and, for updateUser, the submitted
\* data.
NoEv == [op |-> "none", step |-> "none", out |-> "none", err |-> "none",
         tok |-> Null, user |-> NoUser, data |-> Null]

NoPre == [valid |-> FALSE, mem |-> AuthState(NoUser, Null, FALSE), stored |-> Null]

InFlight == {o \in Ops : pc[o] # "idle"}

\* A call made while nothing else runs remembers the state it started from.
PreAtCall == IF InFlight = {}
             THEN [valid |-> TRUE, mem |-> mem, stored |-> stored]
             ELSE NoPre

CanCall(op) == pc[op] = "idle" /\ Cardinality(InFlight) < MaxInFlight

\* The operation returns (out = "ok") or throws (out = "threw") at `step`.
Settled(op, step, out, err, t, u) ==
    [op |-> op, step |-> step, out |-> out, err |-> err, tok |-> t, user |-> u,
     data |-> Null]

Finish(op) ==
    /\ pc' = [pc EXCEPT ![op] = "idle"]
    /\ loc' = [loc EXCEPT ![op] = NoLoc]
    /\ UNCHANGED others

Goto(op, label, l) ==
    /\ pc' = [pc EXCEPT ![op] = label]
    /\ loc' = [loc EXCEPT ![op] = l]
    /\ ev' = NoEv
    /\ UNCHANGED others

\* useState initial value; the mount effect has called loadUser, which is
\* suspended at AsyncStorage.getItem.  The device may hold a token from an
\* earlier run.
Init ==
    /\ mem = AuthState(NoUser, Null, TRUE)
    /\ stored \in Tokens \cup {Null}
    /\ pc = [o \in Ops |-> IF o = "loadUser" THEN "getItem" ELSE "idle"]
    /\ loc = [o \in Ops |-> NoLoc]
    /\ ev = NoEv
    /\ pre = [valid |-> TRUE, mem |-> mem, stored |-> stored]
    /\ api = ApiIdle
    /\ gym = GymIdle
    /\ fol = FolIdle
    /\ edit = EditClosed
    /\ route = RouteUnmounted
    /\ srch = SrchClosed
    /\ load = LoadUnmounted
    /\ form = FormInitial

\* ---------------------------------------------------------------- loadUser

\* getItem resolves: with a token, getCurrentUser is awaited; without one the
\* session becomes anonymous.
LoadUserGetItem ==
    /\ pc["loadUser"] = "getItem"
    /\ IF stored # Null
       THEN /\ Goto("loadUser", "getMe", [NoLoc EXCEPT !.tok = stored])
            /\ UNCHANGED <<mem, stored, pre>>
       ELSE /\ mem' = AuthState(NoUser, Null, FALSE)
            /\ Finish("loadUser")
            /\ ev' = Settled("loadUser", "getItem", "ok", "none", Null, NoUser)
            /\ UNCHANGED <<stored, pre>>

\* getItem rejects: the outer catch awaits removeItem.
LoadUserGetItemFail ==
    /\ pc["loadUser"] = "getItem"
    /\ Goto("loadUser", "rmOuter", [NoLoc EXCEPT !.err = "storage"])
    /\ UNCHANGED <<mem, stored, pre>>

\* getCurrentUser(token) resolves with the server's user.
LoadUserGetMeOk ==
    /\ pc["loadUser"] = "getMe"
    /\ \E u \in Users :
          /\ mem' = AuthState(u, loc["loadUser"].tok, FALSE)
          /\ ev' = Settled("loadUser", "getMe", "ok", "none", loc["loadUser"].tok, u)
    /\ Finish("loadUser")
    /\ UNCHANGED <<stored, pre>>

\* getCurrentUser(token) rejects: the inner catch awaits removeItem.
LoadUserGetMeFail ==
    /\ pc["loadUser"] = "getMe"
    /\ \E e \in ApiErrs :
          Goto("loadUser", "rmInner", [loc["loadUser"] EXCEPT !.err = e])
    /\ UNCHANGED <<mem, stored, pre>>

\* The inner catch without its removeItem: the stale token stays stored.
LoadUserRmInnerKeepsToken ==
    /\ pc["loadUser"] = "rmInner"
    /\ mem' = AuthState(NoUser, Null, FALSE)
    /\ ev' = Settled("loadUser", "rmInner", "ok", loc["loadUser"].err, Null, NoUser)
    /\ Finish("loadUser")
    /\ UNCHANGED <<stored, pre>>

\* removeItem of the inner catch resolves.
LoadUserRmInner ==
    /\ pc["loadUser"] = "rmInner"
    /\ stored' = Null
    /\ mem' = AuthState(NoUser, Null, FALSE)
    /\ ev' = Settled("loadUser", "rmInner", "ok", loc["loadUser"].err, Null, NoUser)
    /\ Finish("loadUser")
    /\ UNCHANGED pre

\* removeItem of the inner catch rejects: the outer catch takes over.
LoadUserRmInnerFail ==
    /\ pc["loadUser"] = "rmInner"
    /\ Goto("loadUser", "rmOuter", loc["loadUser"])
    /\ UNCHANGED <<mem, stored, pre>>

\* removeItem of the outer catch resolves.
LoadUserRmOuter ==
    /\ pc["loadUser"] = "rmOuter"
    /\ stored' = Null
    /\ mem' = AuthState(NoUser, Null, FALSE)
    /\ ev' = Settled("loadUser", "rmOuter", "ok", loc["loadUser"].err, Null, NoUser)
    /\ Finish("loadUser")
    /\ UNCHANGED pre

\* removeItem of the outer catch rejects: loadUser rejects, no setState ran.
LoadUserRmOuterFail ==
    /\ pc["loadUser"] = "rmOuter"
    /\ ev' = Settled("loadUser", "rmOuter", "threw", loc["loadUser"].err, Null, NoUser)
    /\ Finish("loadUser")
    /\ UNCHANGED <<mem, stored, pre>>

LoadUser ==
    \/ LoadUserGetItem
    \/ LoadUserGetItemFail
    \/ LoadUserGetMeOk
    \/ LoadUserGetMeFail
    \/ LoadUserRmInner
    \/ LoadUserRmInnerFail
    \/ LoadUserRmOuter
    \/ LoadUserRmOuterFail

\* ------------------------------------------------------- signIn / signUp
\* signIn and signUp differ only in the endpoint (api.login, api.register).
AuthOps == {"signIn", "signUp"}

\* signIn(email, password) / signUp(data) is called: api.login / api.register
\* is awaited.
SignInCall(op) ==
    /\ CanCall(op)
    /\ pre' = PreAtCall
    /\ Goto(op, "login", NoLoc)
    /\ UNCHANGED <<mem, stored>>

\* The endpoint answers 2xx with { access_token, user }: setItem is awaited.
SignInLoginOk(op) ==
    /\ pc[op] = "login"
    /\ \E t \in Tokens, u \in Users :
          Goto(op, "setItem", [NoLoc EXCEPT !.tok = t, !.user = u])
    /\ UNCHANGED <<mem, stored, pre>>

\* A catch that logs without rethrowing: the call resolves.
SignInLoginFailSwallowed(op) ==
    /\ pc[op] = "login"
    /\ \E e \in ApiErrs :
          ev' = Settled(op, "login", "ok", e, Null, NoUser)
    /\ Finish(op)
    /\ UNCHANGED <<mem, stored, pre>>

\* The endpoint rejects (ApiError, or no response): catch logs and rethrows.
SignInLoginFail(op) ==
    /\ pc[op] = "login"
    /\ \E e \in ApiErrs :
          ev' = Settled(op, "login", "threw", e, Null, NoUser)
    /\ Finish(op)
    /\ UNCHANGED <<mem, stored, pre>>

\* setState without the setItem before it: nothing is persisted.
SignInSetItemNotPersisted(op) ==
    /\ pc[op] = "setItem"
    /\ mem' = AuthState(loc[op].user, loc[op].tok, FALSE)
    /\ ev' = Settled(op, "setItem", "ok", "none", loc[op].tok, loc[op].user)
    /\ Finish(op)
    /\ UNCHANGED <<stored, pre>>

\* setItem('token', response.access_token) resolves, then setState.
SignInSetItem(op) ==
    /\ pc[op] = "setItem"
    /\ stored' = loc[op].tok
    /\ mem' = AuthState(loc[op].user, loc[op].tok, FALSE)
    /\ ev' = Settled(op, "setItem", "ok", "none", loc[op].tok, loc[op].user)
    /\ Finish(op)
    /\ UNCHANGED pre

\* setItem rejects: catch logs and rethrows, setState never ran.
SignInSetItemFail(op) ==
    /\ pc[op] = "setItem"
    /\ ev' = Settled(op, "setItem", "threw", "storage", Null, NoUser)
    /\ Finish(op)
    /\ UNCHANGED <<mem, stored, pre>>

SignIn ==
    \E op \in AuthOps :
        \/ SignInCall(op)
        \/ SignInLoginOk(op)
        \/ SignInLoginFail(op)
        \/ SignInSetItem(op)
        \/ SignInSetItemFail(op)

\* ---------------------------------------------------------------- signOut

\* A signOut that insists on a token, as updateUser does.
SignOutCallNeedsToken ==
    /\ CanCall("signOut")
    /\ pre' = PreAtCall
    /\ IF mem.token = Null
       THEN /\ ev' = Settled("signOut", "call", "threw", "notoken", Null, NoUser)
            /\ UNCHANGED <<mem, pc, loc, others>>
       ELSE /\ mem' = AuthState(NoUser, Null, TRUE)
            /\ Goto("signOut", "removeItem", NoLoc)
    /\ UNCHANGED stored

\* signOut() is called: the state is reset with isLoading true, then
\* removeItem is awaited.
SignOutCall ==
    /\ CanCall("signOut")
    /\ pre' = PreAtCall
    /\ mem' = AuthState(NoUser, Null, TRUE)
    /\ Goto("signOut", "removeItem", NoLoc)
    /\ UNCHANGED stored

\* removeItem resolves: the final state is set.
SignOutRemoved ==
    /\ pc["signOut"] = "removeItem"
    /\ stored' = Null
    /\ mem' = AuthState(NoUser, Null, FALSE)
    /\ ev' = Settled("signOut", "removeItem", "ok", "none", Null, NoUser)
    /\ Finish("signOut")
    /\ UNCHANGED pre

\* removeItem rejects: catch logs and rethrows.
SignOutRemoveFail ==
    /\ pc["signOut"] = "removeItem"
    /\ ev' = Settled("signOut", "removeItem", "threw", "storage", Null, NoUser)
    /\ Finish("signOut")
    /\ UNCHANGED <<mem, stored, pre>>

SignOut ==
    \/ SignOutCall
    \/ SignOutRemoved
    \/ SignOutRemoveFail

\* -------------------------------------------------------------- updateUser

\* { ...updatedUser, ...data }: the submitted field laid over the server's user.
UpdatedStateMerged(prev, u, d) ==
    [prev EXCEPT !.user = IF d = Null THEN u ELSE [u EXCEPT !.username = d]]

\* setState(prevState => ({ ...prevState, user: updatedUser })): the new
\* state from the latest state `prev`, the server's user `u` and the
\* submitted `d`.
UpdatedState(prev, u, d) == [prev EXCEPT !.user = u]

\* updateUser(data) is called; `state` of its closure is the rendered state.
\* Without a token it throws 'No token found', else api.updateProfile is
\* awaited (PUT /auth/me/profile).
UpdateUserCall ==
    /\ CanCall("updateUser")
    /\ pre' = PreAtCall
    /\ \E d \in Partials :
          IF mem.token = Null
          THEN /\ ev' = Settled("updateUser", "call", "threw", "notoken", Null, NoUser)
               /\ UNCHANGED <<pc, loc, others>>
          ELSE Goto("updateUser", "put", [NoLoc EXCEPT !.tok = mem.token, !.data = d])
    /\ UNCHANGED <<mem, stored>>

\* PUT answers 2xx with { user }: updateProfile returns responseData.user.
UpdateUserPutOk ==
    /\ pc["updateUser"] = "put"
    /\ \E u \in Users :
          /\ mem' = UpdatedState(mem, u, loc["updateUser"].data)
          /\ ev' = [Settled("updateUser", "put", "ok", "none", Null, u)
                       EXCEPT !.data = loc["updateUser"].data]
    /\ Finish("updateUser")
    /\ UNCHANGED <<stored, pre>>

\* PUT answers 2xx without user: updateProfile awaits api.getCurrentUser.
UpdateUserPutOkNoUser ==
    /\ pc["updateUser"] = "put"
    /\ Goto("updateUser", "getMe", loc["updateUser"])
    /\ UNCHANGED <<mem, stored, pre>>

\* A catch that signs the session out on a rejected PUT.
UpdateUserPutFailClears ==
    /\ pc["updateUser"] = "put"
    /\ \E e \in ApiErrs :
          ev' = Settled("updateUser", "put", "threw", e, Null, NoUser)
    /\ mem' = AuthState(NoUser, Null, FALSE)
    /\ stored' = Null
    /\ Finish("updateUser")
    /\ UNCHANGED pre

\* PUT rejects: both catches log and rethrow.
UpdateUserPutFail ==
    /\ pc["updateUser"] = "put"
    /\ \E e \in ApiErrs :
          ev' = Settled("updateUser", "put", "threw", e, Null, NoUser)
    /\ Finish("updateUser")
    /\ UNCHANGED <<mem, stored, pre>>

\* The follow-up GET /auth/me answers with the user.
UpdateUserGetMeOk ==
    /\ pc["updateUser"] = "getMe"
    /\ \E u \in Users :
          /\ mem' = UpdatedState(mem, u, loc["updateUser"].data)
          /\ ev' = [Settled("updateUser", "getMe", "ok", "none", Null, u)
                       EXCEPT !.data = loc["updateUser"].data]
    /\ Finish("updateUser")
    /\ UNCHANGED <<stored, pre>>

\* The follow-up GET /auth/me rejects.
UpdateUserGetMeFail ==
    /\ pc["updateUser"] = "getMe"
    /\ \E e \in ApiErrs :
          ev' = Settled("updateUser", "getMe", "threw", e, Null, NoUser)
    /\ Finish("updateUser")
    /\ UNCHANGED <<mem, stored, pre>>

UpdateUser ==
    \/ UpdateUserCall
    \/ UpdateUserPutOk
    \/ UpdateUserPutOkNoUser
    \/ UpdateUserPutFail
    \/ UpdateUserGetMeOk
    \/ UpdateUserGetMeFail

\* -------------------------------------------------------- refreshUserStats

\* The refreshed user with the stats of the user cached so far.
RefreshedStateKeepsStats(snap, u) ==
    [snap EXCEPT !.user = [u EXCEPT !.stats = mem.user.stats]]

\* setState({ ...state, user: updatedUser }): `snap` is the `state` the
\* closure captured when refreshUserStats was called.
RefreshedState(snap, u) == [snap EXCEPT !.user = u]

\* refreshUserStats() is called.  Without a token the Error is thrown inside
\* the try and the catch only logs it: the call resolves.
RefreshCall ==
    /\ CanCall("refreshUserStats")
    /\ pre' = PreAtCall
    /\ IF mem.token = Null
       THEN /\ ev' = Settled("refreshUserStats", "call", "ok", "notoken", Null, NoUser)
            /\ UNCHANGED <<pc, loc, others>>
       ELSE Goto("refreshUserStats", "getMe",
                 [NoLoc EXCEPT !.tok = mem.token, !.snap = Captured(mem)])
    /\ UNCHANGED <<mem, stored>>

\* getCurrentUser(state.token) resolves with the server's user.
RefreshGetMeOk ==
    /\ pc["refreshUserStats"] = "getMe"
    /\ \E u \in Users :
          /\ mem' = RefreshedState(loc["refreshUserStats"].snap, u)
          /\ ev' = Settled("refreshUserStats", "getMe", "ok", "none",
                           loc["refreshUserStats"].tok, u)
    /\ Finish("refreshUserStats")
    /\ UNCHANGED <<stored, pre>>

\* getCurrentUser rejects: the catch only logs, the call resolves.
RefreshGetMeFail ==
    /\ pc["refreshUserStats"] = "getMe"
    /\ \E e \in ApiErrs :
          ev' = Settled("refreshUserStats", "getMe", "ok", e, Null, NoUser)
    /\ Finish("refreshUserStats")
    /\ UNCHANGED <<mem, stored, pre>>

RefreshUserStats ==
    \/ RefreshCall
    \/ RefreshGetMeOk
    \/ RefreshGetMeFail

Next ==
    \/ LoadUser
    \/ SignIn
    \/ SignOut
    \/ UpdateUser
    \/ RefreshUserStats

Spec == Init /\ [][Next]_vars

\* ------------------------------------------------ API client invocations
\* An operation is called: deleteWorkout with an empty token throws at once,
\* every other call dispatches its request with fetch.
ApiCall ==
    /\ api.at = "idle"
    /\ \E op \in ApiOps, pf \in Platforms, t \in BOOLEAN :
          /\ op \in AuthenticatedOps \/ t
          /\ api' = IF ChecksToken(op) /\ ~t
                    THEN [ApiIdle EXCEPT !.op = op, !.platform = pf,
                                         !.hasToken = t, !.at = "done",
                                         !.out = "NotAuthenticated"]
                    ELSE [ApiIdle EXCEPT !.op = op, !.platform = pf,
                                         !.hasToken = t, !.at = "fetch",
                                         !.requests = 1]
    /\ UNCHANGED exceptApi

\* fetch rejects (no response): the error is logged and rethrown.
ApiNetworkFail ==
    /\ api.at \in {"fetch", "refetch"}
    /\ api' = [api EXCEPT !.at = "done", !.out = "NetworkError"]
    /\ UNCHANGED exceptApi

\* The server answers the operation's request.
ApiRespond ==
    /\ api.at = "fetch"
    /\ \E r \in Responses :
          LET s == Surfaced(StyleOf(api.op, api.platform), r) IN
          api' = IF NeedsRefetch(api.op, r)
                 THEN [api EXCEPT !.first = r, !.resp = r, !.at = "refetch",
                                  !.requests = @ + 1]
                 ELSE [api EXCEPT !.first = r, !.resp = r, !.at = "done",
                                  !.out = s.out, !.carried = s.carried]
    /\ UNCHANGED exceptApi

\* The server answers the api.getCurrentUser(token) that updateProfile falls
\* back to.
ApiRespondRefetch ==
    /\ api.at = "refetch"
    /\ \E r \in Responses :
          LET s == Surfaced(StyleOf("getCurrentUser", api.platform), r) IN
          api' = [api EXCEPT !.resp = r, !.at = "done",
                             !.out = s.out, !.carried = s.carried]
    /\ UNCHANGED exceptApi

\* The caller has the outcome; the next invocation can start.
ApiReturn ==
    /\ api.at = "done"
    /\ api' = ApiIdle
    /\ UNCHANGED exceptApi

NextApi ==
    \/ ApiCall
    \/ ApiNetworkFail
    \/ ApiRespond
    \/ ApiRespondRefetch
    \/ ApiReturn

\* The API client alone: invocations one after another, on either platform,
\* with any answer of the server.
SpecApi == Init /\ [][NextApi]_vars

\* ------------------------------------------------------------- gym search
\* The user types or deletes a character in the gym box (onChangeText sets
\* gymInput).
GymType ==
    /\ \E n \in QueryLengths :
          /\ n \in {gym.gymInput - 1, gym.gymInput + 1}
          /\ gym' = [gym EXCEPT !.gymInput = n]
    /\ UNCHANGED exceptGym

\* The debounced handleSearchGyms(gymInput) fires on a screen: without a
\* token or with a query shorter than the screen's minimum it empties the
\* results and returns, else it calls api.searchGyms.
GymSearch ==
    /\ gym.at = "idle"
    /\ \E site \in GymSites, t \in BOOLEAN :
          LET n == gym.gymInput IN
          gym' = IF ~t \/ n < MinLength(site)
                 THEN [gym EXCEPT !.site = site, !.len = n, !.hasToken = t,
                                  !.requests = 0, !.results = "empty"]
                 ELSE [gym EXCEPT !.site = site, !.len = n, !.hasToken = t,
                                  !.at = "searchGyms", !.requests = 1]
    /\ UNCHANGED exceptGym

\* api.searchGyms resolves: the (filtered) list becomes the results.
GymSearchOk ==
    /\ gym.at = "searchGyms"
    /\ gym' = [gym EXCEPT !.at = "idle", !.results = "answered"]
    /\ UNCHANGED exceptGym

\* api.searchGyms rejects: the catch logs and empties the results.
GymSearchFail ==
    /\ gym.at = "searchGyms"
    /\ gym' = [gym EXCEPT !.at = "idle", !.results = "empty"]
    /\ UNCHANGED exceptGym

NextGym ==
    \/ GymType
    \/ GymSearch
    \/ GymSearchOk
    \/ GymSearchFail

\* The gym search boxes alone: one search after another on any screen.
SpecGym == Init /\ [][NextGym]_vars

\* ---------------------------------------------------------- follow toggle
\* A screen opens and lists a user with the is_following the backend has.
FolOpen ==
    /\ fol.at = "idle"
    /\ \E sc \in FollowScreens, t \in BOOLEAN, f \in BOOLEAN :
          fol' = [FolIdle EXCEPT !.screen = sc, !.hasToken = t, !.start = f,
                                 !.flag = f, !.server = f]
    /\ UNCHANGED exceptFol

\* The follow button is pressed while no toggle is running.  Search and
\* profile return at once without a token; the following list does not
\* test it.  The request is chosen from the local flag.
FolPress ==
    /\ fol.screen # "none" /\ fol.at = "idle" /\ fol.toggles < MaxToggles
    /\ fol' = IF fol.screen \in {"search", "profile"} /\ ~fol.hasToken
              THEN FolReturned(fol)
              ELSE [fol EXCEPT !.at = "call", !.op = ToggleOp(fol.flag),
                               !.calls = Append(@, ToggleOp(fol.flag))]
    /\ UNCHANGED exceptFol

\* A handler that also serves a press made while its request is in flight:
\* the second run reads the same item, sends the same request and flips the
\* flag once more.
FolPressInFlightServed ==
    /\ fol.screen # "none" /\ fol.at = "call"
    /\ fol' = [fol EXCEPT !.calls = Append(@, fol.op), !.flag = ~@,
                           !.ignored = TRUE]
    /\ UNCHANGED exceptFol

\* The button is pressed while a toggle is running: on search and on the
\* following list the button is rendered disabled={followLoading[item._id]},
\* on the profile the handler returns on followLoading; nothing is sent.
FolPressInFlight ==
    /\ fol.screen # "none" /\ fol.at # "idle"
    /\ fol' = [fol EXCEPT !.ignored = TRUE]
    /\ UNCHANGED exceptFol

\* followUser / unfollowUser resolves, with or without updated_stats.
\* Search and the following list flip the item's flag; search and profile
\* go on to refreshUserStats when there are updated_stats; profile then
\* reloads the profile.
FolCallOk ==
    /\ fol.at = "call" /\ fol.hasToken
    /\ \E stats \in BOOLEAN :
          LET f == [fol EXCEPT !.server = ServerFollows(fol.op)] IN
          fol' = IF fol.screen = "following"
                 THEN FolReturned([f EXCEPT !.flag = ~fol.flag])
                 ELSE IF fol.screen = "search"
                 THEN IF stats
                      THEN [f EXCEPT !.flag = ~fol.flag, !.at = "refresh"]
                      ELSE FolReturned([f EXCEPT !.flag = ~fol.flag])
                 ELSE [f EXCEPT !.at = IF stats THEN "refresh" ELSE "reload"]
    /\ UNCHANGED exceptFol

\* followUser / unfollowUser rejects: the catch logs.
FolCallFail ==
    /\ fol.at = "call"
    /\ fol' = FolReturned([fol EXCEPT !.failed = TRUE])
    /\ UNCHANGED exceptFol

\* refreshUserStats resolves (it swallows its own errors).
FolRefreshed ==
    /\ fol.at = "refresh"
    /\ fol' = IF fol.screen = "profile"
              THEN [fol EXCEPT !.at = "reload"]
              ELSE FolReturned(fol)
    /\ UNCHANGED exceptFol

\* A profile screen that keeps the profile it has.
FolReloadOkKeepsProfile ==
    /\ fol.at = "reload"
    /\ fol' = FolReturned(fol)
    /\ UNCHANGED exceptFol

\* loadUserProfile: getUserProfile resolves and setProfile(data) takes the
\* backend's is_following.
FolReloadOk ==
    /\ fol.at = "reload"
    /\ fol' = FolReturned([fol EXCEPT !.flag = fol.server])
    /\ UNCHANGED exceptFol

\* loadUserProfile: getUserProfile rejects; its own catch sets the error and
\* the profile stays as it was.
FolReloadFail ==
    /\ fol.at = "reload"
    /\ fol' = FolReturned([fol EXCEPT !.failed = TRUE])
    /\ UNCHANGED exceptFol

NextFollow ==
    \/ FolOpen
    \/ FolPress
    \/ FolPressInFlight
    \/ FolCallOk
    \/ FolCallFail
    \/ FolRefreshed
    \/ FolReloadOk
    \/ FolReloadFail

\* The follow buttons alone: a screen opens, the button is pressed up to
\* MaxToggles times, each press after the one before has been handled.
SpecFollow == Init /\ [][NextFollow]_vars

\* ---------------------------------------------------- profile edit screen
\* The screen opens on the cached user and the effect initialises its state.
EditOpen ==
    /\ edit.at = "closed"
    /\ \E u \in CachedUsers :
          edit' = [EditClosed EXCEPT !.at = "editing", !.user = u,
                                     !.init = Initialised(u),
                                     !.form = Initialised(u)]
    /\ UNCHANGED exceptEdit

\* The user types in the username, bio or location box.
EditType ==
    /\ edit.at = "editing"
    /\ \E f \in {"username", "bio", "location"}, v \in Texts :
          /\ v # edit.form[f]
          /\ edit' = Edited(edit, [edit.form EXCEPT ![f] = v])
    /\ UNCHANGED exceptEdit

\* addGymTag / removeGymTag
EditGymTag ==
    /\ edit.at = "editing"
    /\ \E g \in GymIds :
          edit' = Edited(edit,
                         [edit.form EXCEPT !.gyms =
                              IF g \in @ THEN @ \ {g} ELSE @ \cup {g}])
    /\ UNCHANGED exceptEdit

\* handleSaveChanges up to its first await on the profile.  Without a token
\* it returns at once.  The avatar is unchanged, uploaded, or its upload
\* fails (which stops the save); then the payload is built, and updateUser
\* is called if it has a key; with no key and no avatar the save ends on
\* the "No Changes" alert.
EditSave ==
    /\ edit.at = "editing"
    /\ \E avatar \in {"unchanged", "uploaded", "failed"}, t \in BOOLEAN :
          LET data == ProfileUpdateData(edit.form, edit.user, edit.init.gyms)
              e == [edit EXCEPT !.saved = TRUE, !.called = FALSE,
                                !.profileUpdated = FALSE,
                                !.avatarUpdated = avatar = "uploaded"]
          IN
          edit' = IF ~t THEN edit
                  ELSE IF avatar = "failed"
                  THEN [e EXCEPT !.payload = {}, !.alert = "AvatarError"]
                  ELSE IF data # {}
                  THEN [e EXCEPT !.payload = data, !.called = TRUE,
                                 !.at = "updateUser", !.alert = "none"]
                  ELSE IF avatar = "uploaded"
                  THEN [e EXCEPT !.payload = {}, !.at = "refreshUserStats",
                                 !.alert = "none"]
                  ELSE [e EXCEPT !.payload = {}, !.alert = "NoChanges"]
    /\ UNCHANGED exceptEdit

\* updateUser resolves: the save goes on to refreshUserStats.
EditUpdateOk ==
    /\ edit.at = "updateUser"
    /\ edit' = [edit EXCEPT !.at = "refreshUserStats",
                             !.profileUpdated = TRUE]
    /\ UNCHANGED exceptEdit

\* updateUser rejects: "Profile Error"; with no avatar uploaded nothing was
\* updated and the save ends on "No Changes", else it goes on to refresh.
EditUpdateFail ==
    /\ edit.at = "updateUser"
    /\ edit' = IF edit.avatarUpdated
               THEN [edit EXCEPT !.at = "refreshUserStats",
                                 !.alert = "ProfileError"]
               ELSE [edit EXCEPT !.at = "editing", !.alert = "NoChanges"]
    /\ UNCHANGED exceptEdit

\* refreshUserStats resolves: "Success", and router.back() closes the
\* screen.
EditRefreshed ==
    /\ edit.at = "refreshUserStats"
    /\ edit' = [edit EXCEPT !.at = "closed", !.alert = "Success"]
    /\ UNCHANGED exceptEdit

NextEdit ==
    \/ EditOpen
    \/ EditType
    \/ EditGymTag
    \/ EditSave
    \/ EditUpdateOk
    \/ EditUpdateFail
    \/ EditRefreshed

\* The profile edit screen alone, opened on any cached user.
SpecEdit == Init /\ [][NextEdit]_vars

\* ------------------------------------------------------ useProtectedRoute
\* A layout mounts the hook; the effect runs for the first time.
RouteMount ==
    /\ ~route.mounted
    /\ \E req \in BOOLEAN, nav \in BOOLEAN, l \in BOOLEAN, u \in BOOLEAN,
          sg \in Segments :
          route' = EffectRun([RouteUnmounted EXCEPT
                                 !.mounted = TRUE, !.requireAuth = req,
                                 !.navReady = nav, !.isLoading = l,
                                 !.hasUser = u, !.segment = sg])
    /\ UNCHANGED exceptRoute

\* The session changes (user, isLoading): the effect runs again.
RouteSessionChange ==
    /\ route.mounted
    /\ \E l \in BOOLEAN, u \in BOOLEAN :
          /\ <<l, u>> # <<route.isLoading, route.hasUser>>
          /\ route' = EffectRun([route EXCEPT !.isLoading = l, !.hasUser = u])
    /\ UNCHANGED exceptRoute

\* The user navigates to another group: segments change, the effect runs.
RouteNavigate ==
    /\ route.mounted
    /\ \E sg \in Segments \ {route.segment} :
          route' = EffectRun([route EXCEPT !.segment = sg])
    /\ UNCHANGED exceptRoute

\* The root navigator gets its key: the effect runs.
RouteNavReady ==
    /\ route.mounted /\ ~route.navReady
    /\ route' = EffectRun([route EXCEPT !.navReady = TRUE])
    /\ UNCHANGED exceptRoute

NextRoute ==
    \/ RouteMount
    \/ RouteSessionChange
    \/ RouteNavigate
    \/ RouteNavReady

\* useProtectedRoute alone, under any session and navigation.
SpecRoute == Init /\ [][NextRoute]_vars

\* -------------------------------------------------------- debounced search
\* A search box opens; the effect's first run schedules a search of the
\* empty input.
SrchOpen ==
    /\ srch.box = "none"
    /\ \E b \in SearchBoxes, t \in BOOLEAN :
          srch' = [SrchClosed EXCEPT !.box = b, !.hasToken = t,
                                     !.timers = {0}, !.last = "opened"]
    /\ UNCHANGED exceptSrch

\* The input changes by one character: the effect is cleaned up and runs
\* again.
SrchType ==
    /\ srch.box # "none"
    /\ \E n \in QueryLengths :
          /\ n \in {srch.input - 1, srch.input + 1}
          /\ srch' = [srch EXCEPT !.input = n,
                                  !.timers = TimersAfterChange(@, n),
                                  !.last = "typed"]
    /\ UNCHANGED exceptSrch

\* The delay elapses: the pending call runs.  A query shorter than the
\* minimum empties the results (the gym search also without a token; the
\* user search without a token returns); else the request is sent.
SrchFire ==
    /\ srch.box # "none"
    /\ \E q \in srch.timers :
          LET s == [srch EXCEPT !.timers = @ \ {q}, !.last = "fired"] IN
          IF q < MinSearchLength(srch.box)
             \/ (srch.box = "gymSearch" /\ ~srch.hasToken)
          THEN srch' = [s EXCEPT !.results = NoResults]
          ELSE IF ~srch.hasToken
          THEN srch' = s
          ELSE /\ Len(srch.sent) < MaxSent
               /\ srch' = [s EXCEPT !.sent = Append(@, q),
                                    !.inflight = @ \cup {Len(srch.sent) + 1}]
    /\ UNCHANGED exceptSrch

\* A request in flight is answered with a list: it becomes the results.
SrchAnswerOk ==
    /\ \E i \in srch.inflight :
          srch' = [srch EXCEPT !.inflight = @ \ {i},
                               !.answered = Append(@, i),
                               !.results = ResultsAfterAnswer(srch, i),
                               !.last = "answered"]
    /\ UNCHANGED exceptSrch

\* A request in flight fails: the gym search empties the results, the user
\* search sets its error and keeps them.
SrchAnswerFail ==
    /\ \E i \in srch.inflight :
          srch' = [srch EXCEPT !.inflight = @ \ {i},
                               !.results = IF srch.box = "gymSearch"
                                           THEN NoResults ELSE @,
                               !.last = "failed"]
    /\ UNCHANGED exceptSrch

NextSearch ==
    \/ SrchOpen
    \/ SrchType
    \/ SrchFire
    \/ SrchAnswerOk
    \/ SrchAnswerFail

\* A debounced search box alone: typing, the delay elapsing, answers
\* arriving in any order.
SpecSearch == Init /\ [][NextSearch]_vars

\* ------------------------------------------------------------ screen loads
\* A screen mounts (loading starts true) and its effect calls the load.
LoadMount ==
    /\ load.screen = "none"
    /\ \E sc \in LoadScreens, t \in BOOLEAN, i \in BOOLEAN, u \in BOOLEAN :
          /\ u => t
          /\ load' = Started([LoadUnmounted EXCEPT !.screen = sc,
                                                   !.hasToken = t,
                                                   !.hasId = i,
                                                   !.hasUser = u], FALSE)
    /\ UNCHANGED exceptLoad

\* The load is called again: Retry, focus, or (feed) pull-to-refresh.
LoadAgain ==
    /\ load.screen # "none" /\ load.at = "idle"
    /\ \E refresh \in BOOLEAN :
          /\ refresh => load.screen \in FeedScreens
          /\ load' = Started(load, refresh)
    /\ UNCHANGED exceptLoad

\* The request resolves: the screen keeps the data (the own posts screen
\* also clears its error) and the finally block runs.
LoadOk ==
    /\ load.at = "fetch"
    /\ \E a \in Answers(load.screen) :
          load' = Finally([load EXCEPT
                              !.data = PostsSet(load.screen, load.hasUser, a),
                              !.returned = a,
                              !.error = IF load.screen = "ownPosts"
                                        THEN FALSE ELSE @,
                              !.last = "ok"])
    /\ UNCHANGED exceptLoad

\* The request rejects: the catch sets the error and the finally block
\* runs.
LoadFail ==
    /\ load.at = "fetch"
    /\ load' = Finally([load EXCEPT !.error = TRUE, !.last = "failed"])
    /\ UNCHANGED exceptLoad

\* Own posts without a token: checkTokenFromStorage settles (finding a token
\* or not), then the load returns through its finally block.
LoadTokenChecked ==
    /\ load.at = "checkToken"
    /\ \E found \in BOOLEAN :
          load' = Finally([load EXCEPT !.hasToken = found,
                                       !.last = "returned"])
    /\ UNCHANGED exceptLoad

\* The user leaves the screen.
LoadUnmount ==
    /\ load.screen # "none" /\ load.at = "idle"
    /\ load' = LoadUnmounted
    /\ UNCHANGED exceptLoad

NextLoad ==
    \/ LoadMount
    \/ LoadAgain
    \/ LoadOk
    \/ LoadFail
    \/ LoadTokenChecked
    \/ LoadUnmount

\* A loading screen alone, with any answer of the server.
SpecLoad == Init /\ [][NextLoad]_vars

\* ------------------------------------------------------- add-workout form
\* The user fills a field: picks a date, presses + or - on the duration,
\* picks an image, rates the session, types the achievement, selects a gym.
FormSetField ==
    /\ \E f \in {"date", "duration", "images", "feeling", "achievement",
                 "gym"} :
          \E v \in (IF f = "date" THEN {"today", "picked"}
                    ELSE IF f = "duration"
                    THEN {d \in {form.duration + DurationStep,
                                 IF form.duration >= DurationStep
                                 THEN form.duration - DurationStep ELSE 0} :
                              d <= MaxDuration}
                    ELSE IF f = "images"
                    THEN {n \in {form.images + 1} : n <= MaxImages}
                    ELSE IF f = "feeling" THEN 1..MaxFeeling
                    ELSE IF f = "achievement" THEN Texts
                    ELSE GymIds) :
             /\ v # form[f]
             /\ form' = [form EXCEPT ![f] = v, !.last = "setField",
                                     !.grade = Null, !.alert = "none"]
    /\ UNCHANGED exceptForm

\* The grade selector is opened.
FormOpenGrades ==
    /\ ~form.showGradeSelector
    /\ form' = [form EXCEPT !.showGradeSelector = TRUE, !.last = "openGrades",
                            !.grade = Null, !.alert = "none"]
    /\ UNCHANGED exceptForm

\* addClimb(grade): setClimbs(prev => [...prev, entry]),
\* setShowGradeSelector(false), resetForm(); the state updates apply in the
\* order they were queued.
AddClimb ==
    /\ form.showGradeSelector
    /\ \E g \in Grades :
          form' = [ResetForm([form EXCEPT !.climbs = Append(@, g),
                                          !.showGradeSelector = FALSE])
                      EXCEPT !.last = "addClimb", !.grade = g,
                             !.alert = "none"]
    /\ UNCHANGED exceptForm

\* saveWorkout(): without a gym, a positive duration and a climb it alerts
\* and returns (with climbs it would go on to api.addWorkout).
SaveWorkout ==
    /\ form.last # "saveWorkout"
    /\ form' = [form EXCEPT
                   !.alert = IF form.gym = Null \/ form.duration <= 0
                                \/ form.climbs = <<>>
                             THEN "Error" ELSE "none",
                   !.last = "saveWorkout", !.grade = Null]
    /\ UNCHANGED exceptForm

NextForm ==
    \/ FormSetField
    \/ FormOpenGrades
    \/ AddClimb
    \/ SaveWorkout

\* The add-workout form alone.
SpecForm == Init /\ [][NextForm]_vars

\* ================================================================= claims

\* The session is anonymous and loading is over.
Anonymous == AuthState(NoUser, Null, FALSE)

\* The operations a screen can call.
CallableOps == {"signIn", "signUp", "signOut", "updateUser", "refreshUserStats"}

\* C1: in every reachable state the in-memory token is non-null if and only
\* if the in-memory user is non-null.
C1_TokenIffUser == (mem.token # Null) <=> (mem.user # NoUser)

\* C2: when signIn or signUp returns, the stored token and the in-memory
\* token are the access_token the server answered that call with, and the
\* in-memory user is the user it answered with.
C2_SignInCommitsServerAnswer ==
    (ev.op \in AuthOps /\ ev.out = "ok")
        => (stored = ev.tok /\ mem.token = ev.tok /\ mem.user = ev.user)

\* C2 witness: signIn, run alone from a state with another token stored, has
\* returned.
C2_Witness ==
    /\ ev.op = "signIn" /\ ev.out = "ok"
    /\ pre.valid /\ pre.stored # Null /\ pre.stored # ev.tok
    /\ stored = ev.tok

\* C3: the step at which the login endpoint rejects a signIn throws to the
\* caller and changes neither the in-memory session nor the stored token, so
\* an anonymous session with nothing stored stays so.
C3_RejectedSignInChangesNothing ==
    [][(pc["signIn"] = "login" /\ ev'.op = "signIn" /\ ev'.step = "login"
            /\ ev'.err \in ApiErrs)
        => (ev'.out = "threw" /\ mem' = mem /\ stored' = stored)]_vars

\* C3 witness: signIn, called alone on an anonymous session with nothing
\* stored, was answered 401 and has thrown.
C3_Witness ==
    /\ ev.op = "signIn" /\ ev.step = "login" /\ ev.out = "threw" /\ ev.err = "e401"
    /\ pre.valid /\ pre.mem = Anonymous /\ pre.stored = Null
    /\ mem = Anonymous /\ stored = Null

\* C4: when loadUser returns after GET /auth/me answered 401 for the stored
\* token, the session is anonymous with isLoading false and no token is
\* stored.
C4_LoadUser401EndsAnonymous ==
    (ev.op = "loadUser" /\ ev.out = "ok" /\ ev.err = "e401")
        => (mem = Anonymous /\ stored = Null)

\* C4 witness: the app started with a stored token, nothing else was called,
\* 401 was answered and the inner catch has finished.
C4_Witness ==
    /\ ev.op = "loadUser" /\ ev.out = "ok" /\ ev.err = "e401" /\ ev.step = "rmInner"
    /\ pre.valid /\ pre.stored # Null

\* C5: a signOut that returns leaves no stored token, user and token null and
\* isLoading false, whatever the state it was called in (so a second call
\* ends where the first did); signOut throws only when removeItem itself
\* rejects, never because the session is already signed out.
C5_SignOutIdempotent ==
    /\ (ev.op = "signOut" /\ ev.out = "ok") => (mem = Anonymous /\ stored = Null)
    /\ (ev.op = "signOut" /\ ev.out = "threw") => ev.err = "storage"

\* C5 witness: signOut was called on a session already signed out and has
\* returned.
C5_Witness ==
    /\ ev.op = "signOut" /\ ev.out = "ok"
    /\ pre.valid /\ pre.mem = Anonymous /\ pre.stored = Null

\* C6: when updateUser returns, the in-memory user is the user the server
\* supplied (in the PUT answer or in the follow-up GET /auth/me).
C6_UpdateUserTakesServerUser ==
    (ev.op = "updateUser" /\ ev.out = "ok") => mem.user = ev.user

\* C6 witness: updateUser, run alone, has returned through the follow-up GET
\* with a server user that differs from the submitted username and from the
\* user cached before.
C6_Witness ==
    /\ ev.op = "updateUser" /\ ev.out = "ok" /\ ev.step = "getMe"
    /\ ev.data # Null /\ ev.data # ev.user.username
    /\ pre.valid /\ pre.mem.user # ev.user

\* C7: when refreshUserStats returns after the backend answered, the
\* in-memory user's stats are the stats the backend answered with.
C7_RefreshTakesServerStats ==
    (ev.op = "refreshUserStats" /\ ev.step = "getMe" /\ ev.out = "ok" /\ ev.err = "none")
        => mem.user.stats = ev.user.stats

\* C7 witness: refreshUserStats, run alone on a session whose cached stats
\* differ from the backend's, has returned.
C7_Witness ==
    /\ ev.op = "refreshUserStats" /\ ev.step = "getMe" /\ ev.out = "ok" /\ ev.err = "none"
    /\ pre.valid /\ pre.mem.user # NoUser /\ pre.mem.user.stats # ev.user.stats

\* C8: a callable operation whose API call fails, or which finds no token,
\* rejects to its caller.
C8_FailureIsRethrown ==
    (ev.op \in CallableOps /\ ev.err # "none") => ev.out = "threw"

\* C9: an operation that ran alone and failed leaves the in-memory session
\* and the stored token as they were when it was called.
C9_FailedOperationCommitsNothing ==
    (ev.op \in CallableOps /\ ev.err # "none" /\ pre.valid)
        => (mem = pre.mem /\ stored = pre.stored)

\* C10: when loadUser ends, isLoading is false; the session is authenticated
\* if loadUser ended on a successful getCurrentUser for the stored token, and
\* otherwise it is anonymous with no token stored.
C10_LoadUserEndsLoaded ==
    ev.op = "loadUser"
        => /\ mem.isLoading = FALSE
           /\ IF ev.step = "getMe"
              THEN mem.user # NoUser /\ mem.token # Null
              ELSE mem = Anonymous /\ stored = Null

\* C11: the step at which updateUser or refreshUserStats returns leaves the
\* in-memory token and the stored token as they were just before it.
C11_UpdateAndRefreshKeepToken ==
    [][(ev'.op \in {"updateUser", "refreshUserStats"} /\ ev'.out = "ok"
            /\ ev'.err = "none")
        => (mem'.token = mem.token /\ stored' = stored)]_vars

\* C12: when an updateUser or refreshUserStats request returns right after
\* signOut has returned, the session is still anonymous (user and token
\* null).
C12_SignedOutStaysAnonymous ==
    [][(ev.op = "signOut" /\ ev.out = "ok"
            /\ ev'.op \in {"updateUser", "refreshUserStats"})
        => (mem'.user = NoUser /\ mem'.token = Null)]_vars

\* C13 as claimed: after a 401 answered to loadUser, updateUser or
\* refreshUserStats the stored token is removed and the session anonymous.
C13_RejectedTokenIsInvalidated ==
    (ev.err = "e401"
        /\ (ev.op \in {"updateUser", "refreshUserStats"}
               \/ (ev.op = "loadUser" /\ ev.out = "ok")))
        => (stored = Null /\ mem.user = NoUser /\ mem.token = Null)

\* C13 as amended: a 401 invalidates the token on load only.  When loadUser
\* returns after a 401 the stored token is removed and the session
\* anonymous; the step at which updateUser or refreshUserStats ends on a 401
\* changes neither the stored token nor the in-memory session.
C13_Only401OnLoadInvalidates ==
    [][/\ (ev'.op = "loadUser" /\ ev'.out = "ok" /\ ev'.err = "e401")
            => (stored' = Null /\ mem' = Anonymous)
       /\ (ev'.op \in {"updateUser", "refreshUserStats"} /\ ev'.err = "e401")
            => (stored' = stored /\ mem' = mem)]_vars

\* C13 witness: updateUser was answered 401 and has thrown while the session
\* holds a token that is still stored.
C13_Witness ==
    /\ ev.op = "updateUser" /\ ev.err = "e401" /\ ev.out = "threw"
    /\ mem.token # Null /\ stored = mem.token /\ mem.user # NoUser

\* An invocation has ended on the server's answer r: a non-2xx answer whose
\* body is JSON, or one whose body is not.
ApiEndedOnFailure == api.at = "done" /\ api.resp # NoResponse /\ ~api.resp.ok
ApiEmptyTokenCall ==
    api.at # "idle" /\ api.op \in AuthenticatedOps /\ ~api.hasToken

\* C14: for every operation, a non-2xx response with a JSON body is surfaced
\* as an ApiError that carries the decoded body.
C14_JsonErrorBodyIsApiError ==
    (ApiEndedOnFailure /\ api.resp.body \in {"json", "jsonNoUser"})
        => (api.out = "ApiError" /\ api.carried = "decoded")

\* C15: for every operation, a non-2xx response whose body is not JSON or is
\* missing is surfaced as the generic error built from the status, neither a
\* JSON parse error nor an ApiError.
C15_NonJsonErrorBodyIsStatusError ==
    (ApiEndedOnFailure /\ api.resp.body = "text") => api.out = "StatusError"

\* C16 as claimed: an invocation issues at most one HTTP request.
C16_AtMostOneRequest == api.requests <= 1

\* C16 as amended: an invocation issues at most one HTTP request, except
\* updateProfile, which issues a second one (GET /auth/me) exactly when its
\* PUT is answered 2xx with a JSON body that has no `user`; no invocation
\* issues a third, and no request follows a failed one.
C16_OneRequestOrProfileRefetch ==
    /\ api.requests <= 2
    /\ api.requests = 2
         <=> (api.op = "updateProfile" /\ api.first.ok
                 /\ api.first.body = "jsonNoUser")

\* C16 witness: updateProfile has returned the user of its second request.
C16_Witness ==
    /\ api.at = "done" /\ api.op = "updateProfile"
    /\ api.requests = 2 /\ api.out = "returned"

\* C17 as claimed: called with an empty token, every authenticated operation
\* dispatches its request and surfaces no error of its own.
C17_NoTokenCheck ==
    ApiEmptyTokenCall => (api.requests >= 1 /\ api.out # "NotAuthenticated")

\* C17 as amended: called with an empty token, every authenticated operation
\* but deleteWorkout dispatches its request and surfaces only what comes of
\* the request; deleteWorkout throws 'Not authenticated' and dispatches
\* nothing.
C17_OnlyDeleteWorkoutChecksToken ==
    ApiEmptyTokenCall
        => IF api.op = "deleteWorkout"
           THEN api.requests = 0 /\ api.out = "NotAuthenticated"
           ELSE api.requests >= 1 /\ api.out # "NotAuthenticated"

\* C17 witness: deleteWorkout was called with an empty token and has thrown
\* without a request.
C17_Witness ==
    /\ api.at = "done" /\ api.op = "deleteWorkout" /\ ~api.hasToken
    /\ api.requests = 0

\* handleSearchGyms has run, or is running, on a query of one character
\* with a token at hand.
GymOneCharacter == gym.site # "none" /\ gym.len = 1 /\ gym.hasToken

\* C18 as claimed: at every gym-search call site a query of length 1 issues
\* no api.searchGyms request and leaves the results empty.
C18_OneCharacterNeverSearches ==
    (gym.site # "none" /\ gym.len = 1)
        => (gym.requests = 0 /\ gym.results = "empty")

\* C18 as amended: a query shorter than the call site's minimum (2 on edit
\* profile, 1 on create post and add workout) issues no request and empties
\* the results; so a query of length 1 does that on edit profile, while on
\* create post and add workout it issues one api.searchGyms request; the
\* empty query issues none anywhere.
C18_ShortQueryPerSite ==
    /\ (GymOneCharacter /\ gym.site = "editProfile")
         => (gym.requests = 0 /\ gym.results = "empty")
    /\ (GymOneCharacter /\ gym.site \in {"createPost", "addWorkout"})
         => gym.requests = 1
    /\ (gym.site # "none" /\ gym.len = 0)
         => (gym.requests = 0 /\ gym.results = "empty")

\* C18 witness: on create post a query of one character has been searched
\* and answered.
C18_Witness ==
    /\ GymOneCharacter /\ gym.site = "createPost"
    /\ gym.at = "idle" /\ gym.requests = 1 /\ gym.results = "answered"

\* C19: on each of the three screens, for a user listed as not followed,
\* two presses of the follow button, the second after the first has been
\* handled and with every request answered, send followUser then
\* unfollowUser and leave the local is_following false; and no press ends
\* with the handler throwing.
C19_FollowThenUnfollow ==
    /\ fol.last # "threw"
    /\ (fol.at = "idle" /\ fol.toggles = 2 /\ fol.hasToken /\ ~fol.start
            /\ ~fol.failed)
         => (fol.calls = <<"followUser", "unfollowUser">> /\ ~fol.flag)

\* C19 witness: on the profile screen the second press has been handled
\* after a follow and an unfollow.
C19_Witness ==
    /\ fol.screen = "profile" /\ fol.at = "idle" /\ fol.toggles = 2
    /\ fol.hasToken /\ ~fol.start /\ ~fol.failed
    /\ fol.calls = <<"followUser", "unfollowUser">> /\ ~fol.flag

\* The value of a payload field on screen differs from the one the screen
\* was initialised with.
EditChanged(f) ==
    IF f = "climbing_gym_ids" THEN edit.form.gyms # edit.init.gyms
    ELSE edit.form[f] # edit.init[f]

\* C20: after a save, every field of the payload built for updateUser was
\* changed on the screen since its initialisation, and when no field was
\* changed updateUser was not called.
C20_PayloadHasOnlyChangedFields ==
    edit.saved
        => /\ \A f \in edit.payload : EditChanged(f)
           /\ (edit.form = edit.init) => ~edit.called

\* C26: whenever no operation of the Session Context is in progress, the
\* stored token and the in-memory token agree (both absent or the same).
C26_TokensAgreeAtRest == (InFlight = {}) => (stored = mem.token)

\* C25: the last run of the effect issued no redirect while isLoading (or
\* before the navigator has its key); with loading over and the navigator
\* ready it redirected to /auth/signup exactly when there was no user,
\* authentication was required and the route was outside the auth group,
\* and to /(tabs) exactly when there was a user and the route was inside it.
C25_RedirectRule ==
    route.mounted
        => /\ (route.isLoading \/ ~route.navReady) => route.redirect = "none"
           /\ (~route.isLoading /\ route.navReady)
                => /\ route.redirect = "/auth/signup"
                        <=> (~route.hasUser /\ route.requireAuth
                                /\ route.seen # "auth")
                   /\ route.redirect = "/(tabs)"
                        <=> (route.hasUser /\ route.seen = "auth")

\* C25 witness: with loading over and no user, a route outside the auth
\* group that requires authentication has been replaced by /auth/signup.
C25_Witness ==
    /\ route.mounted /\ ~route.isLoading /\ ~route.hasUser
    /\ route.requireAuth /\ route.seen = "profile"
    /\ route.redirect = "/auth/signup" /\ route.segment = "auth"

\* C30: when a save has ended on the "Profile updated successfully!" alert
\* and the navigation back, the profile update it attempted through
\* updateUser has succeeded (a failed avatar upload ends the save before).
C30_SuccessOnlyIfAllSucceeded ==
    (edit.at = "closed" /\ edit.alert = "Success")
        => (edit.called => edit.profileUpdated)

\* C29: on the search screen and the following list, once the presses on a
\* user have been handled with every request answered, a press made while
\* a request was in flight included, the local is_following equals the
\* follow relation the backend holds.
C29_FlagMatchesServer ==
    (fol.screen \in {"search", "following"} /\ fol.at = "idle"
        /\ ~fol.failed)
        => fol.flag = fol.server

\* C29 witness: on the search screen a follow has been handled during which
\* the button was pressed again.
C29_Witness ==
    /\ fol.screen = "search" /\ fol.at = "idle" /\ fol.toggles = 1
    /\ fol.ignored /\ ~fol.failed /\ fol.calls = <<"followUser">>
    /\ fol.flag /\ fol.server

\* C23: a change of the input cancels the pending search and issues no
\* request; a request is issued only when the delay elapses, for the value
\* the input then has, and leaves nothing pending: a burst of changes
\* issues at most one request, for the last value.
C23_DebounceCancelsPending ==
    [][/\ srch'.input # srch.input
            => (srch'.timers = {srch'.input} /\ srch'.sent = srch.sent)
       /\ srch'.sent # srch.sent
            => /\ srch'.sent = Append(srch.sent, srch.input)
               /\ srch'.input = srch.input
               /\ srch'.timers = {}]_vars

\* C23 witness: after the input went from 2 to 3 characters within the
\* delay, the only request sent is for the 3 characters.
C23_Witness ==
    /\ srch.box = "userSearch" /\ srch.input = 3 /\ srch.sent = <<3>>
    /\ srch.timers = {} /\ srch.last = "fired"

\* C24: an answer that arrives sets the displayed results to those of its
\* own query, also when the answer to a later query has already arrived.
C24_LateAnswerOverwrites ==
    (srch.last = "answered")
        => srch.results = srch.sent[srch.answered[Len(srch.answered)]]

\* C24 witness: two queries were sent, the answer to the second arrived
\* first, and the results displayed are those of the first.
C24_Witness ==
    /\ srch.box = "gymSearch" /\ srch.sent = <<2, 3>>
    /\ srch.answered = <<2, 1>> /\ srch.last = "answered"
    /\ srch.results = 2 /\ srch.input = 3

\* C21: on the workouts list and the workout detail, when a load has just
\* been answered successfully (a Retry after a failed load included), the
\* error is cleared and the loaded data is displayed.
C21_RetryRecovers ==
    (load.screen \in {"workouts", "workoutDetail"} /\ load.at = "idle"
        /\ load.last = "ok")
        => (~load.error /\ View(load) = "data")

C28_LoadEndsNotLoading ==
    (load.screen # "none" /\ load.at = "idle")
        => (~load.loading /\ ~load.refreshing)

\* C27: the step addClimb(grade) takes appends one entry of that grade to
\* the climbs and leaves the climbs already there, the gym, the date, the
\* duration, the images, the session feeling and the achievement as they
\* were.
C27_AddClimbAppendsOnly ==
    [][(form'.last = "addClimb")
        => FormFields(form') =
             [FormFields(form) EXCEPT !.climbs = Append(@, form'.grade)]]_vars

====
